---- MODULE Spec2Model ----
(***************************************************************************)
(* A model of md2roff.c: the whitespace squeezer (sqzdup), the line        *)
(* flusher (flushln), the backend emitter (roff), the list stack, the      *)
(* single-pass transducer (md2roff) and the command-line driver (main).    *)
(*                                                                         *)
(* A character is a string: a printable character is itself ("a", "\n"),   *)
(* the string terminator is NUL.  The output stream and the pending text   *)
(* buffer are sequences of items <<tag, text>>: <<"ch", c>> is one copied  *)
(* character, any other tag names the printf/puts/stradd call that wrote   *)
(* the literal given as text (an event that renders nothing in a dialect   *)
(* is kept with the empty text, so that the order of roff() calls can be   *)
(* read off the stream).                                                   *)
(***************************************************************************)
EXTENDS Integers, Sequences, FiniteSets, TLC

VARIABLES
    mpack,        \* selected macro package (global)
    stk_list,     \* list stack: kind of list per slot (global)
    stk_count,    \* list stack: item counter per slot (global)
    stk_list_p,   \* list stack: top pointer, first free slot (global)
    argv,         \* main: the command line, argv[1..]
    argi,         \* main: index i of the first loop
    files,        \* main: files[0..fc-1], the argv entries that name files
    fi,           \* main: index i of the second loop
    stdin,        \* the characters still unread on standard input
    docname,      \* md2roff: docname
    source,       \* md2roff: the string source (without its terminator)
    beyond,       \* the bytes that lie in memory after the terminator of source
    p,            \* md2roff: read position (1-based index into the memory image, 0 is NULL)
    buf,          \* md2roff: dest[0 .. d-1], the pending text buffer
    bline,        \* md2roff: beginning of line
    bcode,        \* md2roff: inside code block
    bold,         \* md2roff: bold active
    italics,      \* md2roff: italics active
    out,          \* everything written to standard output
    pc,           \* where the process is
    ret,          \* where md2roff returns to
    sq            \* input and results of sqzdup when it is exercised on its own

vars == <<mpack, stk_list, stk_count, stk_list_p, argv, argi, files, fi, stdin,
          docname, source, beyond, p, buf, bline, bcode, bold, italics, out,
          pc, ret, sq>>

mainvars == <<argv, argi, files, fi, stdin>>
stackvars == <<stk_list, stk_count, stk_list_p>>
scanvars == <<docname, source, beyond, p, buf, bline, bcode, bold, italics>>

-----------------------------------------------------------------------------
(* Bounds of the model *)

MaxFrags == 3

MaxSqzLen == 5

MaxArgs == 3

-----------------------------------------------------------------------------
(* Characters and items *)

NUL == "NUL"

\* the backtick character (written by name)
Backtick == "BACKTICK"

Ch(c) == <<"ch", c>>

NL == Ch("\n")

SpaceChars == {" ", "\t", "\n", "\r", "\f", "VT"}

Digits == {"0", "1", "2", "3", "4", "5", "6", "7", "8", "9"}

Letters == {"a", "b", "m", "n", "x", "T"}

DigitVal(c) ==
    CASE c = "0" -> 0 [] c = "1" -> 1 [] c = "2" -> 2 [] c = "3" -> 3
      [] c = "4" -> 4 [] c = "5" -> 5 [] c = "6" -> 6 [] c = "7" -> 7
      [] c = "8" -> 8 [] c = "9" -> 9

\* the literals that stradd appends to the buffer and that end in a letter
AlnumEnding == {"\\fB", "\\fI", "\\fP"}

isspace(e) == e[1] = "ch" /\ e[2] \in SpaceChars

\* isalnum of the last character of an item (the character before a run)
isalnumLast(e) ==
    IF e[1] = "ch" THEN e[2] \in Letters \cup Digits ELSE e[2] \in AlnumEnding

\* isalnum of the first character of an item: every stradd literal starts
\* with a backslash
isalnumFirst(e) == e[1] = "ch" /\ e[2] \in Letters \cup Digits

IsNul(e) == e[1] = "ch" /\ e[2] = NUL

RECURSIVE SkipSpaces(_, _)
\* the first index >= i of s that holds no whitespace (Len(s)+1 at the end)
SkipSpaces(s, i) ==
    IF i <= Len(s) /\ isspace(s[i]) THEN SkipSpaces(s, i + 1) ELSE i

RECURSIVE CStrLen(_, _)
CStrLen(s, i) ==
    IF i <= Len(s) /\ ~IsNul(s[i]) THEN CStrLen(s, i + 1) ELSE i - 1

\* a character array read as a C string: it ends at the first NUL
CStr(s) == SubSeq(s, 1, CStrLen(s, 1))

-----------------------------------------------------------------------------
(* sqzdup *)

\* SqzTrim without its isspace test: the last character is always removed
SqzTrimAlways(r) == IF Len(r) > 0 THEN SubSeq(r, 1, Len(r) - 1) ELSE r

\* the final trim of sqzdup: one trailing whitespace character is removed
SqzTrim(r) ==
    IF Len(r) > 0 /\ isspace(r[Len(r)]) THEN SubSeq(r, 1, Len(r) - 1) ELSE r

\* SqzRun without its look-ahead: only the character before the run decides
SqzRunNoLookahead(s, i) ==
    IF i > 1 /\ isalnumLast(s[i - 1]) THEN <<Ch(" ")>> ELSE <<>>

\* what sqzdup writes for the first whitespace character of a run at i
SqzRun(s, i) ==
    IF i > 1
    THEN IF isalnumLast(s[i - 1])
         THEN <<Ch(" ")>>
         ELSE LET nc == SkipSpaces(s, i)
              IN  IF nc <= Len(s) /\ isalnumFirst(s[nc]) THEN <<Ch(" ")>> ELSE <<>>
    ELSE <<>>

RECURSIVE SqzLoop(_, _, _, _)
SqzLoop(s, i, lc, r) ==
    IF i > Len(s) THEN r
    ELSE IF isspace(s[i])
         THEN IF ~lc
              THEN SqzLoop(s, i + 1, TRUE, r \o SqzRun(s, i))
              ELSE SqzLoop(s, i + 1, lc, r)
         ELSE SqzLoop(s, i + 1, FALSE, Append(r, s[i]))

sqzdup(s) == SqzTrim(SqzLoop(s, SkipSpaces(s, 1), FALSE, <<>>))

\* flushln without its tests: the squeezed text is always written
flushlnAlways(b) == Append(sqzdup(CStr(b)), NL)

\* flushln: the items it writes for the buffer b (puts of the squeezed text)
flushln(b) ==
    IF Len(b) > 0
    THEN LET c == CStr(b)
             t == SubSeq(c, SkipSpaces(c, 1), Len(c))
         IN  IF Len(t) > 0 THEN Append(sqzdup(t), NL) ELSE <<>>
    ELSE <<>>

-----------------------------------------------------------------------------
(* The list stack and roff *)

MAX_LIST_SIZE == 32

Dialects == {"mp_mm", "mp_man", "mp_mdoc", "mp_mom"}

\* The state roff() works on: o the output stream, sp/sl/sc the list stack
\* (stk_list_p, stk_list, stk_count).
RoffState(o, sp, sl, sc) == [o |-> o, sp |-> sp, sl |-> sl, sc |-> sc]

\* the text of roff(type) for the events that touch no stack
roffText(type) ==
    CASE type = "par_end" ->
           IF mpack = "mp_mdoc" THEN ".Pp\n" ELSE ".PP\n"
      [] type = "ln_brk" ->
           IF mpack = "mp_mom" THEN ".BR\n" ELSE ".br\n"
      [] type = "box_open" ->
           CASE mpack = "mp_mom" -> ".DRH\n"
             [] mpack = "mp_man" -> ".B\n"
             [] OTHER -> ".FT B\n"
      [] type = "box_close" ->
           IF mpack = "mp_mom" THEN ".DRH\n" ELSE ".FT P\n"
      [] type = "cblock_open" ->
           CASE mpack = "mp_mom" -> ".CODE\n"
             [] mpack = "mp_mdoc" -> ".Bd -literal -offset indent\n"
             [] OTHER -> ".RS 4\n.EX\n"
      [] type = "cblock_end" ->
           CASE mpack = "mp_mom" -> ".CODE OFF\n"
             [] mpack = "mp_mdoc" -> ".Ed\n"
             [] OTHER -> "\n.EE\n.RE\n"
      [] type = "lst_close" ->
           CASE mpack = "mp_mom" -> ".LIST OFF\n"
             [] mpack = "mp_mdoc" -> ".El\n"
             [] OTHER -> ""
      [] type = "li_end" ->
           IF mpack = "mp_mm" THEN ".LE\n" ELSE ""
      [] type = "new_sh" ->
           CASE mpack = "mp_mom" -> ".HEADING 1 \""
             [] mpack = "mp_mdoc" -> ".Sh "
             [] OTHER -> ".SH "
      [] type = "new_ss" ->
           CASE mpack = "mp_mom" -> ".HEADING 2 \""
             [] mpack = "mp_mdoc" -> ".Ss "
             [] OTHER -> ".SS "
      [] type = "new_s4" ->
           CASE mpack = "mp_mom" -> ".HEADING 3 \""
             [] mpack = "mp_mdoc" -> ".Ss "
             [] OTHER -> ".SS "

\* the text of roff(ol_open), given the top pointer after the push
olOpenText(sp) ==
    CASE mpack = "mp_mom" ->
           CASE sp = 2 -> ".LIST ALPHA\n"
             [] sp = 4 -> ".LIST alpha\n"
             [] OTHER -> ".LIST DIGIT\n"
      [] mpack = "mp_mdoc" -> ".Bl -enum -offset indent\n"
      [] mpack = "mp_mm" -> ".AL\n"
      [] OTHER -> ""

\* the text of roff(ul_open), given the top pointer after the push
ulOpenText(sp) ==
    CASE mpack = "mp_mom" ->
           IF sp % 2 = 1 THEN ".LIST BULLET" ELSE ".LIST DASH"
      [] mpack = "mp_mdoc" ->
           IF sp % 2 = 1 THEN ".Bl -bullet -offset indent"
                         ELSE ".Bl -dash -offset indent"
      [] mpack = "mp_mm" -> ".BL\n"
      [] OTHER -> ""

\* roff(ol_open) and roff(ul_open): push a frame, then write
roffOpen(st, type, kind) ==
    LET sp1 == st.sp + 1
    IN  [o  |-> Append(st.o, <<type, IF kind = "ol" THEN olOpenText(sp1)
                                                  ELSE ulOpenText(sp1)>>),
         sp |-> sp1,
         sl |-> [st.sl EXCEPT ![st.sp] = kind],
         sc |-> [st.sc EXCEPT ![st.sp] = 1]]

\* roff(li_open): only the man package reads and advances the counter
roffLiOpen(st) ==
    CASE mpack = "mp_mom" -> [st EXCEPT !.o = Append(@, <<"li_open", ".ITEM\n">>)]
      [] mpack = "mp_mdoc" -> [st EXCEPT !.o = Append(@, <<"li_open", ".It\n">>)]
      [] mpack = "mp_man" ->
           IF st.sp # 0
           THEN IF st.sl[st.sp - 1] = "ul"
                THEN [st EXCEPT !.o = Append(@, <<"li_open", ".IP \\(bu 4\n">>)]
                ELSE [st EXCEPT
                        !.o = @ \o <<<<"li_open", ".IP ">>,
                                     <<"counter", ToString(st.sc[st.sp - 1])>>,
                                     <<"li_text", ". 4\n">>>>,
                        !.sc = [@ EXCEPT ![st.sp - 1] = @ + 1]]
           ELSE [st EXCEPT !.o = Append(@, <<"li_open", "">>)]
      [] OTHER -> [st EXCEPT !.o = Append(@, <<"li_open", ".LI\n">>)]

\* void roff(int type, ...) for the events without arguments
roff(st, type) ==
    CASE type = "ol_open" -> roffOpen(st, "ol_open", "ol")
      [] type = "ul_open" -> roffOpen(st, "ul_open", "ul")
      [] type = "li_open" -> roffLiOpen(st)
      [] OTHER -> [st EXCEPT !.o = Append(@, <<type, roffText(type)>>)]

Chars(s) == [i \in 1..Len(s) |-> Ch(s[i])]

\* index of the first c in the character sequence s, 0 if there is none
RECURSIVE IndexOf(_, _, _)
IndexOf(s, c, i) ==
    IF i > Len(s) THEN 0 ELSE IF s[i] = c THEN i ELSE IndexOf(s, c, i + 1)

\* roff(url_mark, title, link)
roffUrl(st, title, link) ==
    LET at == IndexOf(link, "@", 1) # 0
        t == Chars(title)
        l == Chars(link)
        w == CASE mpack = "mp_man" ->
                    <<<<"url_mark", IF at THEN ".MT " ELSE ".UR ">>>> \o l \o <<NL>>
                    \o t \o <<<<"url_end", IF at THEN "\n.ME\n" ELSE "\n.UE\n">>>>
               [] mpack = "mp_mdoc" ->
                    IF at
                    THEN <<<<"url_mark", ".An ">>>> \o t \o <<<<"url_mid", " Aq Mt ">>>>
                         \o l \o <<<<"url_end", "\n">>>>
                    ELSE <<<<"url_mark", ".Lk ">>>> \o l \o <<<<"url_mid", " \"">>>>
                         \o t \o <<<<"url_end", "\"\n">>>>
               [] mpack = "mp_mm" ->
                    <<<<"url_mark", "">>>> \o t \o <<<<"url_mid", " <">>>> \o l
                    \o <<<<"url_end", ">\n">>>>
               [] OTHER ->
                    <<<<"url_mark", "">>>> \o t \o <<<<"url_mid", " \\*[UL]">>>> \o l
                    \o <<<<"url_end", "\\*[ULX]\n">>>>
    IN  [st EXCEPT !.o = @ \o w]

\* roff(man_ref, link)
roffManRef(st, link) ==
    LET l == Chars(link)
        sp == IndexOf(link, " ", 1)
        w == CASE mpack = "mp_mdoc" ->
                    <<<<"man_ref", ".Xr ">>>> \o l \o <<NL>>
               [] mpack = "mp_man" ->
                    IF sp # 0
                    THEN <<<<"man_ref", "\\fB">>>> \o SubSeq(l, 1, sp - 1)
                         \o <<<<"man_mid", "\\fP(">>>> \o SubSeq(l, sp + 1, Len(l))
                         \o <<<<"man_end", ")\n">>>>
                    ELSE <<<<"man_ref", "\\fB">>>> \o l \o <<<<"man_end", "\\fP\n">>>>
               [] OTHER -> <<<<"man_ref", "">>>> \o l \o <<NL>>
    IN  [st EXCEPT !.o = @ \o w]

-----------------------------------------------------------------------------
(* Reading the source *)

\* *p for p at index i of the memory md2roff reads: the string, its
\* terminator, what follows it (beyond), and a zero byte after that
At(i) ==
    IF i >= 1 /\ i <= Len(source) THEN source[i]
    ELSE IF i > Len(source) + 1 /\ i <= Len(source) + 1 + Len(beyond)
         THEN beyond[i - Len(source) - 1]
         ELSE NUL

\* strchr(p, c): the index of the first c at or after i, 0 (NULL) if the
\* string ends first
RECURSIVE strchr(_, _)
strchr(i, c) ==
    IF At(i) = c THEN i ELSE IF At(i) = NUL THEN 0 ELSE strchr(i + 1, c)

\* strncmp(p, "ccc", 3) == 0
Triple(i, c) == At(i) = c /\ At(i + 1) = c /\ At(i + 2) = c

\* the position println(p) returns: past the first newline, or the terminator
RECURSIVE printlnEnd(_)
printlnEnd(i) ==
    IF At(i) = NUL THEN i ELSE IF At(i) = "\n" THEN i + 1 ELSE printlnEnd(i + 1)

\* the characters At(i) .. At(j-1) as output items
Copy(i, j) == [k \in 1..(j - i) |-> Ch(At(i + k - 1))]

\* the characters println(p) writes
println(i) == Copy(i, printlnEnd(i))

\* the first index at or after i that holds neither a space nor a tab
RECURSIVE SkipBlanks(_)
SkipBlanks(i) == IF At(i) \in {" ", "\t"} THEN SkipBlanks(i + 1) ELSE i

\* the first index at or after i that holds no c
RECURSIVE SkipRun(_, _)
SkipRun(i, c) == IF At(i) = c THEN SkipRun(i + 1, c) ELSE i

\* the first index at or after i that holds no digit
RECURSIVE SkipDigits(_)
SkipDigits(i) == IF At(i) \in Digits THEN SkipDigits(i + 1) ELSE i

\* atoi of the digits At(i) .. At(j-1)
RECURSIVE atoi(_, _, _)
atoi(i, j, acc) == IF i >= j THEN acc ELSE atoi(i + 1, j, 10 * acc + DigitVal(At(i)))

\* the characters a backslash escape stands for
EscapeChar(c) ==
    CASE c = "n" -> "\n" [] c = "r" -> "\r" [] c = "t" -> "\t" [] c = "f" -> "\f"
      [] c = "b" -> "BS" [] c = "a" -> "BEL" [] c = "e" -> "ESC" [] OTHER -> c

\* the set md2roff passes to strchr for the character before a delimiter;
\* strchr finds the terminator too
Boundary == {"(", "{", "[", ",", ".", ";", Backtick, "'", "\"", " ", "\t", "\n", NUL}

\* the literals stradd appends for the inline styles (the backtick before
\* code_open and the quote after code_close are items of their own)
StyleText(tag) ==
    CASE tag = "bold_open" -> IF mpack = "mp_mom" THEN "\\*[BD]" ELSE "\\fB"
      [] tag = "bold_close" -> IF mpack = "mp_mom" THEN "\\*[PREV]" ELSE "\\fP"
      [] tag = "ital_open" -> IF mpack = "mp_mom" THEN "\\*[IT]" ELSE "\\fI"
      [] tag = "ital_close" -> IF mpack = "mp_mom" THEN "\\*[PREV]" ELSE "\\fP"
      [] tag = "code_open" -> IF mpack = "mp_mom" THEN "\\*[CODE]" ELSE "\\f[CR]"
      [] tag = "code_close" -> IF mpack = "mp_mom" THEN "\\*[CODE OFF]" ELSE "\\fP"

Style(tag) == <<tag, StyleText(tag)>>

-----------------------------------------------------------------------------
(* md2roff: one iteration of the scan loop, as a function of the locals *)

\* The locals of md2roff and the globals roff() touches, at the top of an
\* iteration.  halt says how the iteration leaves the loop: "no", "return"
\* (the return inside the loop) or "exit" (exit(EXIT_FAILURE)).
Locals ==
    [p |-> p, buf |-> buf, bline |-> bline, bcode |-> bcode, bold |-> bold,
     italics |-> italics,
     st |-> RoffState(out, stk_list_p, stk_list, stk_count), halt |-> "no"]

\* d = flushln(d, dest)
Flush(L) == [L EXCEPT !.st.o = @ \o flushln(L.buf), !.buf = <<>>]

\* roff(type)
Emit(L, type) == [L EXCEPT !.st = roff(@, type)]

\* printf / puts / println of the items w
Write(L, w) == [L EXCEPT !.st.o = @ \o w]

\* *d ++ = e
Put(L, e) == [L EXCEPT !.buf = Append(@, e)]

\* index of the last newline of the character array c, 0 if there is none
RECURSIVE strrchrNL(_, _)
strrchrNL(c, i) == IF i = 0 THEN 0 ELSE IF c[i] = NL THEN i ELSE strrchrNL(c, i - 1)

\* a newline followed by a rule: ruler or section
EolRule(L) ==
    LET q == strchr(L.p + 1, "\n")
    IN  IF q = 0 THEN [L EXCEPT !.halt = "return", !.p = 0]
        ELSE IF Len(L.buf) = 0 THEN [L EXCEPT !.p = q + 1]
        ELSE LET c == CStr(L.buf)
                 k == strrchrNL(c, Len(c))
             IN  IF k # 0
                 THEN LET L1 == Write(L, IF k > 1 THEN Append(SubSeq(c, 1, k - 1), NL)
                                                  ELSE <<>>)
                          L2 == Emit(L1, "new_sh")
                          L3 == Write(L2, Append(SubSeq(c, k + 1, Len(c)), NL))
                      IN  [L3 EXCEPT !.buf = <<>>, !.p = q + 1]
                 ELSE [Flush(Emit(L, "new_sh")) EXCEPT !.p = q + 1]

IsRule(i) == Triple(i, "=") \/ Triple(i, "-") \/ Triple(i, "*")

\* the end of a line met in line
EndOfLineBody(L) ==
    IF IsRule(L.p + 1) THEN EolRule(L)
    ELSE [Put(L, Ch(" ")) EXCEPT !.bline = TRUE, !.p = @ + 1]

\* the character before p, a space at the start of the source
PrevChar(L) == IF L.p > 1 THEN At(L.p - 1) ELSE " "

\* StrongBody without the test of the character before the delimiter
StrongBodyToggle(L) ==
    [L EXCEPT !.buf = Append(@, IF L.bold THEN Style("bold_close") ELSE Style("bold_open")),
              !.bold = ~@, !.p = @ + 2]

StrongBody(L) ==
    LET L1 == IF L.bold
              THEN [Put(L, Style("bold_close")) EXCEPT !.bold = FALSE]
              ELSE IF PrevChar(L) \in Boundary
                   THEN [Put(L, Style("bold_open")) EXCEPT !.bold = TRUE]
                   ELSE Put(Put(L, Ch(At(L.p))), Ch(At(L.p + 1)))
    IN  [L1 EXCEPT !.p = @ + 2]

EmphasisBody(L) ==
    LET L1 == IF L.italics
              THEN [Put(L, Style("ital_close")) EXCEPT !.italics = FALSE]
              ELSE IF PrevChar(L) \in Boundary
                   THEN [Put(L, Style("ital_open")) EXCEPT !.italics = TRUE]
                   ELSE Put(L, Ch(At(L.p)))
    IN  [L1 EXCEPT !.p = @ + 1]

\* the index of the closing backtick at or after i, 0 if the string ends first
CodeEnd(i) == strchr(i, Backtick)

CodeOpen == <<Ch(Backtick), Style("code_open")>>

CodeClose == <<Style("code_close"), Ch("'")>>

\* InlineCodeBody without the exit: an unterminated span is copied to the
\* end of the input and the scan goes on
InlineCodeBodyNoExit(L) ==
    LET q == CodeEnd(L.p + 1)
        e == IF q = 0 THEN strchr(L.p + 1, NUL) ELSE q
    IN  [L EXCEPT !.buf = @ \o CodeOpen \o Copy(L.p + 1, e) \o CodeClose,
                  !.p = IF q = 0 THEN e ELSE q + 1]

InlineCodeBody(L) ==
    LET q == CodeEnd(L.p + 1)
    IN  IF q = 0
        THEN [L EXCEPT !.halt = "exit",
                       !.buf = @ \o CodeOpen \o Copy(L.p + 1, strchr(L.p + 1, NUL)),
                       !.p = strchr(L.p + 1, NUL)]
        ELSE [L EXCEPT !.buf = @ \o CodeOpen \o Copy(L.p + 1, q) \o CodeClose,
                       !.p = q + 1]

\* the source characters At(i) .. At(j-1)
Text(i, j) == [k \in 1..(j - i) |-> At(i + k - 1)]

LinkBody(L) ==
    LET b == IF At(L.p) = "!" THEN L.p + 1 ELSE L.p
        pstart == b + 1
        pnext == strchr(pstart, "]")
        pfin == IF pnext # 0 /\ At(pnext + 1) = "(" THEN strchr(pnext + 2, ")") ELSE 0
    IN  IF pfin # 0
        THEN LET left == Text(pstart, pnext)
                 rght == Text(pnext + 2, pfin)
                 L1 == Flush(L)
                 L2 == IF rght = <<"m", "a", "n">>
                       THEN [L1 EXCEPT !.st = roffManRef(@, left)]
                       ELSE [L1 EXCEPT !.st = roffUrl(@, left, rght)]
             IN  [L2 EXCEPT !.p = pfin + 1]
        ELSE [Put(L, Ch(At(b))) EXCEPT !.p = b + 1]

CopyCharBody(L) == [Put(L, Ch(At(L.p))) EXCEPT !.p = @ + 1]

\* which branch of the in-line part takes the character at i
InLineKind(i) ==
    CASE At(i) = "\n" -> "eol"
      [] At(i) \in {"*", "_"} /\ At(i + 1) = At(i) -> "strong"
      [] At(i) \in {"*", "_"} /\ At(i + 1) # At(i) -> "emphasis"
      [] At(i) = Backtick -> "code"
      [] At(i) = "[" \/ (At(i) = "!" /\ At(i + 1) = "[") -> "link"
      [] OTHER -> "copy"

\* the in-line part of the loop body
InLine(L) ==
    LET k == InLineKind(L.p)
    IN  CASE k = "eol" -> EndOfLineBody(L)
          [] k = "strong" -> StrongBody(L)
          [] k = "emphasis" -> EmphasisBody(L)
          [] k = "code" -> InlineCodeBody(L)
          [] k = "link" -> LinkBody(L)
          [] OTHER -> CopyCharBody(L)

\* BlankLineBody without the test of stk_list_p: a frame is always popped
BlankLineBodyAlwaysPop(L) ==
    LET L1 == Flush(L)
        L2 == [Emit(Emit(L1, "li_end"), "lst_close") EXCEPT !.st.sp = @ - 1]
    IN  [Emit(L2, "par_end") EXCEPT !.bline = TRUE, !.p = @ + 1]

\* an empty line at the beginning of a line
BlankLineBody(L) ==
    LET L1 == Flush(L)
        L2 == IF L1.st.sp # 0
              THEN [Emit(Emit(L1, "li_end"), "lst_close") EXCEPT !.st.sp = @ - 1]
              ELSE L1
    IN  [Emit(L2, "par_end") EXCEPT !.bline = TRUE, !.p = @ + 1]

\* HeaderEvent with every level taken for a minor section
HeaderEventMinor(level) == "new_ss"

\* the section event of a header of the given level (levels 1 to 3)
HeaderEvent(level) == IF level = 3 THEN "new_ss" ELSE "new_sh"

\* a line that begins with '#'
HeaderBody(L) ==
    LET L1 == Flush(L)
        pnext == strchr(L.p, "\n")
        q == SkipRun(L.p, "#")
        level == q - L.p
        r == SkipBlanks(q)
    IN  IF pnext = 0 THEN InLine(L1)
        ELSE IF At(pnext - 1) # "#"
        THEN IF level <= 3
             THEN InLine([Write(Emit(L1, HeaderEvent(level)), println(r))
                            EXCEPT !.p = printlnEnd(r)])
             ELSE IF mpack = "mp_man"
                  THEN [Write(L1, <<<<"tp_open", ".TP\n\\fB">>>> \o println(r)
                                   \o <<<<"tp_close", "\\fR">>>>)
                          EXCEPT !.p = printlnEnd(r)]
                  ELSE [Emit(L1, "new_s4") EXCEPT !.p = r]
        ELSE LET L2 == Write(Emit(Emit(L1, "box_open"), "ln_brk"), println(L.p))
             IN  [Emit(Emit(L2, "ln_brk"), "box_close") EXCEPT !.p = printlnEnd(L.p)]

IsUnorderedMarker(i) == At(i + 1) \in {" ", "\t"} /\ At(i) \in {"*", "+", "-"}

UnorderedItemBody(L) ==
    LET L1 == Flush(L)
        L2 == IF L1.st.sp # 0 THEN Emit(L1, "li_end") ELSE Emit(L1, "ul_open")
    IN  [Emit(L2, "li_open") EXCEPT !.p = @ + 1]

\* SeedCounter without the assignment: the counter stays as roff set it
SeedCounterNone(st, n) == st

\* stk_count[stk_list_p-1] = atoi(num)
SeedCounter(st, n) == [st EXCEPT !.sc = [@ EXCEPT ![st.sp - 1] = n]]

\* a line that begins with a digit
OrderedItemBody(L) ==
    LET q == SkipDigits(L.p)
    IN  IF At(q) = "."
        THEN LET L1 == Flush(L)
                 L2 == IF L1.st.sp # 0 THEN Emit(L1, "li_end") ELSE Emit(L1, "ol_open")
                 L3 == [L2 EXCEPT !.st = SeedCounter(@, atoi(L.p, q, 0))]
             IN  [Emit(L3, "li_open") EXCEPT !.p = SkipBlanks(q + 1)]
        ELSE InLine(L)

CodeBlockOpenBody(L) ==
    Emit(Flush([L EXCEPT !.bcode = TRUE, !.p = @ + 3]), "cblock_open")

CodeBlockEndBody(L) ==
    Flush(Emit([Flush(L) EXCEPT !.p = @ + 3, !.bcode = FALSE], "cblock_end"))

\* the control-character switch written before and after a line that
\* begins with '.'
DotSwitch(on) ==
    IF on THEN <<"cc_on", IF mpack = "mp_mom" THEN ".ESC_CHAR !\n" ELSE ".cc !\n">>
          ELSE <<"cc_off", IF mpack = "mp_mom" THEN ".ESC_CHAR .\n" ELSE "!cc .\n">>

\* CodeBlockLineBody with the line read as ordinary text
CodeBlockLineBodyInLine(L) == InLine(L)

CodeBlockLineBody(L) ==
    LET xchg_dot == At(L.p) = "."
        w == (IF xchg_dot THEN <<DotSwitch(TRUE)>> ELSE <<>>) \o println(L.p)
             \o (IF xchg_dot THEN <<DotSwitch(FALSE)>> ELSE <<>>)
    IN  [Write(Flush(L), w) EXCEPT !.p = printlnEnd(L.p)]

EscapeBody(L) ==
    [Put(L, Ch(EscapeChar(At(L.p + 1)))) EXCEPT !.p = @ + 2, !.bline = FALSE]

\* which branch of the loop body takes the iteration that starts at the
\* current position
Branch ==
    IF bcode THEN IF Triple(p, Backtick) THEN "cblock_end" ELSE "cblock_line"
    ELSE IF At(p) = "\\" THEN "escape"
    ELSE IF bline
         THEN CASE At(p) = "\n" -> "blank"
                [] At(p) = "#" -> "header"
                [] At(p) # "\n" /\ At(p) # "#" /\ IsUnorderedMarker(p) -> "ul"
                [] At(p) \in Digits -> "ol"
                [] At(p) \notin Digits /\ At(p) # "#" /\ ~IsUnorderedMarker(p)
                   /\ Triple(p, Backtick) -> "cblock_open"
                [] OTHER -> InLineKind(p)
         ELSE InLineKind(p)

\* the whole loop body
Iteration(L) ==
    LET B == [L EXCEPT !.bline = FALSE]
    IN  CASE Branch = "cblock_end" -> CodeBlockEndBody(L)
          [] Branch = "cblock_line" -> CodeBlockLineBody(L)
          [] Branch = "escape" -> EscapeBody(L)
          [] Branch = "blank" -> BlankLineBody(B)
          [] Branch = "header" -> HeaderBody(B)
          [] Branch = "ul" -> UnorderedItemBody(B)
          [] Branch = "ol" -> OrderedItemBody(B)
          [] Branch = "cblock_open" -> CodeBlockOpenBody(B)
          [] OTHER -> InLine(B)

-----------------------------------------------------------------------------
(* md2roff: the actions *)

\* what may lie after the terminator of a string, up to the next zero byte
Garbage == {<<>>, <<"x">>}

\* The locals and globals after an iteration.  An iteration that moves p past
\* the terminator reads memory that is not the string's: it may fault, or
\* find any bytes there.
Commit(L) ==
    /\ p' = L.p
    /\ buf' = L.buf
    /\ bline' = L.bline
    /\ bcode' = L.bcode
    /\ bold' = L.bold
    /\ italics' = L.italics
    /\ out' = L.st.o
    /\ stk_list_p' = L.st.sp
    /\ stk_list' = L.st.sl
    /\ stk_count' = L.st.sc
    /\ IF L.p > Len(source) + 1 /\ p <= Len(source) + 1
       THEN \/ \E g \in Garbage : beyond' = g /\ pc' = "scan"
            \/ beyond' = beyond /\ pc' = "crash"
       ELSE /\ beyond' = beyond
            /\ pc' = CASE L.halt = "return" -> ret
                       [] L.halt = "exit" -> "exit_failure"
                       [] OTHER -> "scan"
    /\ UNCHANGED <<mpack, mainvars, docname, source, ret, sq>>

\* the loop is at the top of an iteration that takes the branch b
Scanning(b) == pc = "scan" /\ At(p) # NUL /\ Branch = b

\* the lines md2roff writes before the loop
PreambleText ==
    CASE mpack = "mp_mm" -> <<<<"mso", ".do mso m.tmac\n">>>>
      [] mpack = "mp_mom" ->
           <<<<"mso", ".do mso mom.tmac\n">>, <<"title", ".TITLE \"">>,
             <<"docname", docname>>,
             <<"start", "\"\n.AUTHOR \"md2roff\"\n.PAPER A4\n.PRINTSTYLE TYPESET\n.START\n">>>>
      [] OTHER ->
           <<<<"mso", IF mpack = "mp_mdoc" THEN ".do mso mdoc.tmac\n"
                                          ELSE ".do mso man.tmac\n">>>>
           \o (IF At(1) = "#" /\ At(2) \in SpaceChars
               THEN <<<<"th", ".TH ">>>> \o println(3)
               ELSE <<<<"th", ".TH ">>, <<"docname", docname>>,
                      <<"th_date", " 7 YYYY-MM-DD document\n">>>>)

\* the read position after the preamble
PreambleEnd ==
    IF mpack \in {"mp_man", "mp_mdoc"} /\ At(1) = "#" /\ At(2) \in SpaceChars
    THEN printlnEnd(3) ELSE 1

\* StackReset without the reset: the top pointer is left as it is
StackResetKept == stk_list_p

\* stk_list_p = 0; // reset stack
StackReset == 0

\* md2roff, from its entry to the top of the loop
Preamble ==
    /\ pc = "entry"
    /\ stk_list_p' = StackReset
    /\ out' = out \o <<<<"doc", ".\\\" x-roff document\n">>>> \o PreambleText
    /\ p' = PreambleEnd
    /\ buf' = <<>>
    /\ bline' = TRUE
    /\ bcode' = FALSE
    /\ bold' = FALSE
    /\ italics' = FALSE
    /\ pc' = "scan"
    /\ UNCHANGED <<mpack, stk_list, stk_count, mainvars, docname, source, beyond,
                   ret, sq>>

CodeBlockEnd ==
    /\ Scanning("cblock_end")
    /\ Commit(Iteration(Locals))

CodeBlockLine ==
    /\ Scanning("cblock_line")
    /\ Commit(Iteration(Locals))

Escape ==
    /\ Scanning("escape")
    /\ Commit(Iteration(Locals))

BlankLine ==
    /\ Scanning("blank")
    /\ Commit(Iteration(Locals))

Header ==
    /\ Scanning("header")
    /\ Commit(Iteration(Locals))

UnorderedItem ==
    /\ Scanning("ul")
    /\ Commit(Iteration(Locals))

OrderedItem ==
    /\ Scanning("ol")
    /\ Commit(Iteration(Locals))

CodeBlockOpen ==
    /\ Scanning("cblock_open")
    /\ Commit(Iteration(Locals))

EndOfLine ==
    /\ Scanning("eol")
    /\ Commit(Iteration(Locals))

Strong ==
    /\ Scanning("strong")
    /\ Commit(Iteration(Locals))

Emphasis ==
    /\ Scanning("emphasis")
    /\ Commit(Iteration(Locals))

InlineCode ==
    /\ Scanning("code")
    /\ Commit(Iteration(Locals))

Link ==
    /\ Scanning("link")
    /\ Commit(Iteration(Locals))

CopyChar ==
    /\ Scanning("copy")
    /\ Commit(Iteration(Locals))

\* the loop ends at the terminator: the final flush, and the return
Finish ==
    /\ pc = "scan"
    /\ At(p) = NUL
    /\ out' = out \o flushln(buf)
    /\ buf' = <<>>
    /\ pc' = ret
    /\ UNCHANGED <<mpack, stackvars, mainvars, docname, source, beyond, p, bline,
                   bcode, bold, italics, ret, sq>>

NextDoc ==
    \/ Preamble
    \/ CodeBlockEnd
    \/ CodeBlockLine
    \/ Escape
    \/ BlankLine
    \/ Header
    \/ UnorderedItem
    \/ OrderedItem
    \/ CodeBlockOpen
    \/ EndOfLine
    \/ Strong
    \/ Emphasis
    \/ InlineCode
    \/ Link
    \/ CopyChar
    \/ Finish

-----------------------------------------------------------------------------
(* Documents *)

\* the pieces documents are built from
Frags ==
    {<<"a">>, <<" ">>, <<"\n">>, <<"#">>, <<"*">>, <<"*", "*">>, <<"5", ".">>,
     <<"1">>, <<".">>, <<Backtick, Backtick, Backtick>>, <<Backtick>>, <<"\\">>,
     <<"[", "a", "]", "(", "b", ")">>, <<"\n", "-", "-", "-">>}

RECURSIVE DocsOf(_)
\* the documents made of at most n pieces
DocsOf(n) ==
    IF n = 0 THEN {<<>>}
    ELSE LET d == DocsOf(n - 1) IN d \cup {x \o f : x \in d, f \in Frags}

\* documents of the test scenarios, and inputs longer than MaxFrags pieces
Samples ==
    {<<"#", " ", "T", "\n">>,
     <<"*", "*", "b", "*", "*", " ", "x">>,
     <<"1", ".", " ", "a", "\n", "5", ".", " ", "b", "\n">>,
     <<"*", "a", "\n", "\n", "*", "\n", "-", "-", "-">>,
     <<"a", "\n", "b", "\n", "-", "-", "-", "\n">>,
     <<"#", " ", "T", "\n", "*", " ", "a", "\n">>,
     <<"#", "#", "#", "#", " ", "T", "\n">>,
     <<"*", " ", "a", "\n", "*", " ", "b", "\n", "\n">>,
     <<Backtick, Backtick, Backtick, "\n", ".", "x", "\n", "b", "\n",
       Backtick, Backtick, Backtick, "\n">>,
     <<"#", "#", "#", "#", " ", "T", "\n", "*", " ", "a", "\n">>,
     <<Backtick, Backtick, Backtick, "\n", "*", "*", "a", "\n",
       Backtick, Backtick, Backtick, "\n">>}

Docs == DocsOf(MaxFrags) \cup Samples

EmptyStack == [i \in 0..(MAX_LIST_SIZE - 1) |-> "none"]

ZeroCount == [i \in 0..(MAX_LIST_SIZE - 1) |-> 0]

SqIdle == [in |-> <<>>, r1 |-> <<>>, r2 |-> <<>>, n |-> 0]

\* one call md2roff("doc", source) with the package already selected
InitDoc ==
    /\ mpack \in Dialects
    /\ stk_list = EmptyStack
    /\ stk_count = ZeroCount
    /\ stk_list_p = 0
    /\ argv = <<>>
    /\ argi = 1
    /\ files = <<>>
    /\ fi = 1
    /\ stdin = <<>>
    /\ docname = "doc"
    /\ source \in Docs
    /\ beyond = <<>>
    /\ p = 1
    /\ buf = <<>>
    /\ bline = TRUE
    /\ bcode = FALSE
    /\ bold = FALSE
    /\ italics = FALSE
    /\ out = <<>>
    /\ pc = "entry"
    /\ ret = "returned"
    /\ sq = SqIdle

SpecDoc == InitDoc /\ [][NextDoc]_vars

-----------------------------------------------------------------------------
(* main *)

\* the files that exist, and their contents
FileSys ==
    [f1 |-> <<"a", "\n", "\n", "*", " ", "a", "\n", "5", ".", "b", "\n",
              Backtick, Backtick, Backtick, "\n", ".", "x", "\n",
              Backtick, Backtick, Backtick>>,
     f2 |-> <<"5", ".", " ", "a", "\n", "*", "*", "a", "*", "*", " ", "*", "b", "*",
              " ", Backtick, "x", Backtick, " ", "\\", "n",
              "[", "a", "]", "(", "b", ")", "\n", "#", " ", "T", "\n">>]

\* what standard input may hold
StdinDocs == {<<>>, <<"*", " ", "a">>}

PackageFlags == {"-n", "--man", "-m", "--mm", "-d", "--mdoc", "-o", "--mom"}

PackageOf(a) ==
    CASE a \in {"-n", "--man"} -> "mp_man"
      [] a \in {"-m", "--mm"} -> "mp_mm"
      [] a \in {"-d", "--mdoc"} -> "mp_mdoc"
      [] a \in {"-o", "--mom"} -> "mp_mom"

InfoFlags == {"-h", "--help", "-v", "--version"}

\* the arguments whose first character is '-'
DashArgs == PackageFlags \cup InfoFlags \cup {"-", "-x"}

\* the arguments command lines are made of
ArgValues == {"-n", "-m", "-d", "-o", "-h", "-x", "-", "f1", "f2", "nofile"}

RECURSIVE ArgLines(_)
\* the command lines of at most n arguments
ArgLines(n) ==
    IF n = 0 THEN {<<>>}
    ELSE LET d == ArgLines(n - 1) IN d \cup {Append(x, a) : x \in d, a \in ArgValues}

InFirstLoop == pc = "main" /\ argi <= Len(argv)

\* -n, -m, -d, -o: select the macro package
MainPackage ==
    /\ InFirstLoop
    /\ argv[argi] \in PackageFlags
    /\ mpack' = PackageOf(argv[argi])
    /\ argi' = argi + 1
    /\ UNCHANGED <<stackvars, argv, files, fi, stdin, scanvars, out, pc, ret, sq>>

\* -h, -v: print the usage or the version
MainInfo ==
    /\ InFirstLoop
    /\ argv[argi] \in InfoFlags
    /\ out' = Append(out, IF argv[argi] \in {"-h", "--help"}
                          THEN <<"usage", "usage: md2roff [options] [file1 .. [fileN]]\n">>
                          ELSE <<"version", "md2roff, version 1.1\n">>)
    /\ argi' = argi + 1
    /\ UNCHANGED <<mpack, stackvars, argv, files, fi, stdin, scanvars, pc, ret, sq>>

\* any other argument that begins with '-': a warning on the error stream
MainUnknown ==
    /\ InFirstLoop
    /\ argv[argi] \in DashArgs \ (PackageFlags \cup InfoFlags \cup {"-"})
    /\ argi' = argi + 1
    /\ UNCHANGED <<mpack, stackvars, argv, files, fi, stdin, scanvars, out, pc, ret, sq>>

\* "-": loadfile(NULL) and md2roff("stdin", buf).  loadfile stores no
\* terminator after the characters it read, so the string ends at the
\* first zero byte that happens to follow them.
MainStdin ==
    /\ InFirstLoop
    /\ argv[argi] = "-"
    /\ \E g \in Garbage : source' = stdin \o g
    /\ stdin' = <<>>
    /\ docname' = "stdin"
    /\ beyond' = <<>>
    /\ argi' = argi + 1
    /\ pc' = "entry"
    /\ ret' = "main"
    /\ UNCHANGED <<mpack, stackvars, argv, files, fi, p, buf, bline, bcode, bold,
                   italics, out, sq>>

\* an argument that names a file is kept for the second loop
MainFileArg ==
    /\ InFirstLoop
    /\ argv[argi] \notin DashArgs
    /\ files' = Append(files, argi)
    /\ argi' = argi + 1
    /\ UNCHANGED <<mpack, stackvars, argv, fi, stdin, scanvars, out, pc, ret, sq>>

InSecondLoop == pc = "main" /\ argi > Len(argv) /\ fi <= Len(files)

\* the second loop: loadfile(argv[files[i]]) and md2roff
MainLoadFile ==
    /\ InSecondLoop
    /\ argv[files[fi]] \in DOMAIN FileSys
    /\ source' = FileSys[argv[files[fi]]]
    /\ docname' = argv[files[fi]]
    /\ beyond' = <<>>
    /\ fi' = fi + 1
    /\ pc' = "entry"
    /\ ret' = "main"
    /\ UNCHANGED <<mpack, stackvars, argv, argi, files, stdin, p, buf, bline, bcode,
                   bold, italics, out, sq>>

\* panicif: fopen failed
MainOpenFail ==
    /\ InSecondLoop
    /\ argv[files[fi]] \notin DOMAIN FileSys
    /\ pc' = "exit_failure"
    /\ UNCHANGED <<mpack, stackvars, mainvars, scanvars, out, ret, sq>>

\* return EXIT_SUCCESS
MainExit ==
    /\ pc = "main"
    /\ argi > Len(argv)
    /\ fi > Len(files)
    /\ pc' = "exit_success"
    /\ UNCHANGED <<mpack, stackvars, mainvars, scanvars, out, ret, sq>>

\* the process after the start of main
Init ==
    /\ mpack = "mp_man"
    /\ stk_list = EmptyStack
    /\ stk_count = ZeroCount
    /\ stk_list_p = 0
    /\ argv \in ArgLines(MaxArgs)
    /\ argi = 1
    /\ files = <<>>
    /\ fi = 1
    /\ stdin \in StdinDocs
    /\ docname = ""
    /\ source = <<>>
    /\ beyond = <<>>
    /\ p = 1
    /\ buf = <<>>
    /\ bline = TRUE
    /\ bcode = FALSE
    /\ bold = FALSE
    /\ italics = FALSE
    /\ out = <<>>
    /\ pc = "main"
    /\ ret = "main"
    /\ sq = SqIdle

Next ==
    \/ MainPackage
    \/ MainInfo
    \/ MainUnknown
    \/ MainStdin
    \/ MainFileArg
    \/ MainLoadFile
    \/ MainOpenFail
    \/ MainExit
    \/ NextDoc

Spec == Init /\ [][Next]_vars

-----------------------------------------------------------------------------
(* sqzdup on its own *)

SqzAlphabet == {Ch("a"), Ch("1"), Ch("."), Ch(" "), Ch("\n")}

RECURSIVE SqzInputs(_)
\* the texts of at most n characters
SqzInputs(n) ==
    IF n = 0 THEN {<<>>}
    ELSE LET d == SqzInputs(n - 1) IN d \cup {Append(x, c) : x \in d, c \in SqzAlphabet}

InitSqz ==
    /\ mpack = "mp_man"
    /\ stk_list = EmptyStack
    /\ stk_count = ZeroCount
    /\ stk_list_p = 0
    /\ argv = <<>>
    /\ argi = 1
    /\ files = <<>>
    /\ fi = 1
    /\ stdin = <<>>
    /\ docname = ""
    /\ source = <<>>
    /\ beyond = <<>>
    /\ p = 1
    /\ buf = <<>>
    /\ bline = TRUE
    /\ bcode = FALSE
    /\ bold = FALSE
    /\ italics = FALSE
    /\ out = <<>>
    /\ pc = "sqz"
    /\ ret = "sqz"
    /\ sq \in {[in |-> x, r1 |-> <<>>, r2 |-> <<>>, n |-> 0] : x \in SqzInputs(MaxSqzLen)}

\* r1 = sqzdup(in)
Squeeze ==
    /\ pc = "sqz"
    /\ sq.n = 0
    /\ sq' = [sq EXCEPT !.r1 = sqzdup(sq.in), !.n = 1]
    /\ UNCHANGED <<mpack, stackvars, mainvars, scanvars, out, pc, ret>>

\* r2 = sqzdup(r1)
SqueezeAgain ==
    /\ pc = "sqz"
    /\ sq.n = 1
    /\ sq' = [sq EXCEPT !.r2 = sqzdup(sq.r1), !.n = 2]
    /\ UNCHANGED <<mpack, stackvars, mainvars, scanvars, out, pc, ret>>

NextSqz == Squeeze \/ SqueezeAgain

SpecSqz == InitSqz /\ [][NextSqz]_vars

-----------------------------------------------------------------------------
(* Reading the output stream *)

\* the number of items of o that carry the tag
Count(o, tag) == Cardinality({i \in DOMAIN o : o[i][1] = tag})

\* the number of list-open events in o
Opens(o) == Count(o, "ol_open") + Count(o, "ul_open")

\* the conversion of one document has returned to its caller
Completed == pc = "returned"

-----------------------------------------------------------------------------
(* C1 *)

\* C1: every list-open event of a conversion is matched by a list-close
\* event and a pop before the conversion completes: at normal completion as
\* many list-close as list-open events were emitted and the stack is empty.
C1_ListsClosedAtCompletion ==
    Completed => (stk_list_p = 0 /\ Opens(out) = Count(out, "lst_close"))

-----------------------------------------------------------------------------
(* C2 *)

\* the indices of the counters rendered in o
CounterIdx(o) == {i \in DOMAIN o : o[i][1] = "counter"}

\* i and j are counters of successive items of one list: no list is opened
\* or closed and no other counter is rendered between them
SuccessiveItems(o, i, j) ==
    /\ i \in CounterIdx(o) /\ j \in CounterIdx(o) /\ i < j
    /\ \A k \in (i + 1)..(j - 1) :
          o[k][1] \notin {"counter", "ol_open", "ul_open", "lst_close"}

\* the largest counter the documents of the model can render
MaxCounter == 60

\* C2: the successive items of an ordered list carry the counters k, k+1,
\* ..., whatever the literal numbers of the later items are: each
\* list-item-open advances the counter by exactly one.
C2_CountersAdvanceByOne ==
    \A i, j \in DOMAIN out :
        SuccessiveItems(out, i, j) =>
            \E k \in 0..MaxCounter :
                out[i][2] = ToString(k) /\ out[j][2] = ToString(k + 1)

-----------------------------------------------------------------------------
(* C3 *)

\* C3: on every path by which md2roff finishes a document without a fatal
\* error the pending text buffer has been flushed: nothing is left in it.
C3_BufferFlushedAtCompletion == Completed => Len(buf) = 0

-----------------------------------------------------------------------------
(* C4 *)

\* C4: the read position never moves past the terminator of the source, the
\* scan does not fault, and the loop ends with the read position exactly at
\* the terminator.
C4_ScanEndsAtTerminator ==
    /\ p <= Len(source) + 1
    /\ pc # "crash"
    /\ Completed => p = Len(source) + 1

-----------------------------------------------------------------------------
(* C5 *)

\* the source is one line "# " title newline, the title made of letters
TitleLine(src) ==
    /\ Len(src) >= 4
    /\ src[1] = "#" /\ src[2] = " " /\ src[Len(src)] = "\n"
    /\ \A i \in 3..(Len(src) - 1) : src[i] \in Letters

TitleOf(src) == Chars(SubSeq(src, 3, Len(src) - 1))

\* o holds an item with the tag, followed by the argument and a newline
HasDirective(o, tag, arg) ==
    \E i \in DOMAIN o :
        /\ o[i][1] = tag
        /\ i + Len(arg) + 1 <= Len(o)
        /\ SubSeq(o, i + 1, i + Len(arg) + 1) = Append(arg, NL)

\* the scan has consumed the whole source
SourceConsumed == pc # "entry" /\ p > Len(source)

\* C5 as stated: converting "# Title" and a newline writes a major section
\* header directive whose argument is the title, in every dialect.
C5_TitleIsSectionHeader ==
    (TitleLine(source) /\ Completed) => HasDirective(out, "new_sh", TitleOf(source))

\* C5 as amended: in the mm and mom dialects the line is written as a major
\* section header directive whose argument is the title; in the man and mdoc
\* dialects the preamble takes the line as the argument of the title header
\* (.TH) and no section header is written.
C5_TitleHeaderByDialect ==
    (TitleLine(source) /\ SourceConsumed) =>
        IF mpack \in {"mp_mm", "mp_mom"}
        THEN HasDirective(out, "new_sh", TitleOf(source)) /\ Count(out, "th") = 0
        ELSE HasDirective(out, "th", TitleOf(source)) /\ Count(out, "new_sh") = 0

C5_Witness ==
    TitleLine(source) /\ SourceConsumed /\ mpack = "mp_mom" /\ Count(out, "new_sh") = 1

-----------------------------------------------------------------------------
(* C6 *)

\* the indices of s that hold no whitespace, in increasing order
RECURSIVE TextIdx(_, _)
TextIdx(s, i) ==
    IF i > Len(s) THEN <<>>
    ELSE IF isspace(s[i]) THEN TextIdx(s, i + 1) ELSE <<i>> \o TextIdx(s, i + 1)

BothAlnum(x, y) == isalnumLast(x) /\ isalnumFirst(y)

EitherAlnum(x, y) == isalnumLast(x) \/ isalnumFirst(y)

\* s without its whitespace, with one space put back between two neighbours
\* that a run separated in s: if both of them are alphanumeric (both), or
\* if one of them is
RECURSIVE Joined(_, _, _, _)
Joined(s, idx, k, both) ==
    IF k > Len(idx) THEN <<>>
    ELSE LET sep == /\ k > 1
                    /\ idx[k] > idx[k - 1] + 1
                    /\ IF both THEN BothAlnum(s[idx[k - 1]], s[idx[k]])
                               ELSE EitherAlnum(s[idx[k - 1]], s[idx[k]])
         IN  (IF sep THEN <<Ch(" ")>> ELSE <<>>)
             \o <<s[idx[k]]>> \o Joined(s, idx, k + 1, both)

\* C6 as stated: a run of whitespace becomes one space only if the character
\* before it and the first character after it are both alphanumeric, is
\* dropped otherwise, and leading and trailing whitespace is dropped.
C6_SpaceOnlyBetweenAlnum ==
    sq.n >= 1 => sq.r1 = Joined(sq.in, TextIdx(sq.in, 1), 1, TRUE)

\* C6 as amended: a run of whitespace between two characters becomes one
\* space if the character before it or the first character after it is
\* alphanumeric, and is dropped only if neither is; leading and trailing
\* whitespace is dropped.
C6_SpaceNextToAlnum ==
    sq.n >= 1 => sq.r1 = Joined(sq.in, TextIdx(sq.in, 1), 1, FALSE)

C6_Witness ==
    /\ sq.n >= 1
    /\ sq.in = <<Ch("a"), Ch(" "), Ch("."), Ch("\n"), Ch(".")>>
    /\ sq.r1 = <<Ch("a"), Ch(" "), Ch("."), Ch(".")>>

-----------------------------------------------------------------------------
(* C7 *)

\* C7: squeeze is idempotent: sqzdup(sqzdup(x)) = sqzdup(x).
C7_SqueezeIdempotent == sq.n = 2 => sq.r2 = sq.r1

C7_Witness == sq.n = 2 /\ sq.r1 # sq.in /\ Len(sq.r1) > 1 /\ sq.r2 = sq.r1

-----------------------------------------------------------------------------
(* C8 *)

\* C8: when both style flags are inactive at completion, as many bold-close
\* as bold-open tokens were written to the output, and as many italic-close
\* as italic-open tokens.
C8_StyleTokensPaired ==
    (Completed /\ ~bold /\ ~italics) =>
        /\ Count(out, "bold_open") = Count(out, "bold_close")
        /\ Count(out, "ital_open") = Count(out, "ital_close")

-----------------------------------------------------------------------------
(* C9 *)

\* the iteration at hand opens an inline code span that no backtick closes
UnterminatedCode ==
    pc = "scan" /\ At(p) # NUL /\ Branch = "code" /\ CodeEnd(p + 1) = 0

\* C9: an inline code span left open at the end of the input ends the run
\* with a failure status; the pending buffer is not flushed, and nothing is
\* written after the failure.
C9_UnterminatedCodeIsFatal ==
    [][/\ UnterminatedCode => (pc' = "exit_failure" /\ out' = out)
       /\ pc = "exit_failure" => (pc' = "exit_failure" /\ out' = out)]_vars

C9_Witness ==
    pc = "exit_failure" /\ Count(buf, "code_open") = 1 /\ Count(out, "code_open") = 0

-----------------------------------------------------------------------------
(* C10 *)

\* the index of the last document start in o, 0 if there is none
RECURSIVE LastDoc(_, _)
LastDoc(o, i) == IF i = 0 THEN 0 ELSE IF o[i][1] = "doc" THEN i ELSE LastDoc(o, i - 1)

\* what the conversion at hand has written
CurrentOut == SubSeq(out, LastDoc(out, Len(out)), Len(out))

\* what the earlier conversions of the process have written
EarlierOut == SubSeq(out, 1, LastDoc(out, Len(out)) - 1)

\* the kind of the last list opened in o
RECURSIVE LastOpened(_, _)
LastOpened(o, i) ==
    IF i = 0 THEN "none"
    ELSE IF o[i][1] = "ol_open" THEN "ol"
    ELSE IF o[i][1] = "ul_open" THEN "ul"
    ELSE LastOpened(o, i - 1)

\* C10: every conversion starts with an empty list stack, whatever the
\* earlier conversions of the process left on it: while a document is
\* scanned the depth is the number of lists this document has opened and not
\* closed, and the top frame is of the kind this document opened last.
C10_StackStartsEmpty ==
    pc = "scan" =>
        /\ stk_list_p = Opens(CurrentOut) - Count(CurrentOut, "lst_close")
        /\ stk_list_p > 0 =>
              stk_list[stk_list_p - 1] = LastOpened(CurrentOut, Len(CurrentOut))

C10_Witness ==
    /\ pc = "scan"
    /\ Opens(EarlierOut) > Count(EarlierOut, "lst_close")
    /\ stk_list_p = 0

-----------------------------------------------------------------------------
(* C11 *)

\* the tags of the items of o, in order
Tags(o) == [i \in DOMAIN o |-> o[i][1]]

\* C11: for each of the four dialects, converting an empty document writes
\* only the fixed comment line, the package-activation line and the
\* title/header lines of the preamble: no semantic event and no body text.
C11_EmptyDocumentOnlyPreamble ==
    (source = <<>> /\ pc # "entry") =>
        Tags(out) = CASE mpack = "mp_mm" -> <<"doc", "mso">>
                      [] mpack = "mp_mom" -> <<"doc", "mso", "title", "docname", "start">>
                      [] OTHER -> <<"doc", "mso", "th", "docname", "th_date">>

C11_Witness == source = <<>> /\ Completed /\ mpack = "mp_mom" /\ Len(out) = 5

-----------------------------------------------------------------------------
(* C12 *)

\* the character at i is the first of its line
LineStart(i) == i = 1 \/ At(i - 1) = "\n"

\* the line that starts at i is empty
BlankLineAt(i) == LineStart(i) /\ At(i) = "\n"

\* what the blank-line handling does in the step at hand
BlankLineHandled ==
    /\ buf' = <<>>
    /\ Tags(out') = Tags(out \o flushln(buf))
                    \o (IF stk_list_p > 0 THEN <<"li_end", "lst_close">> ELSE <<>>)
                    \o <<"par_end">>
    /\ stk_list_p' = IF stk_list_p > 0 THEN stk_list_p - 1 ELSE 0
    /\ bline'

\* C12: for every blank line of the input outside a fenced code block, the
\* buffer is flushed, then, if a list is open, list-item-end and list-close
\* are emitted and exactly one frame is popped, then paragraph-end is
\* emitted, and the following line is read in start-of-line state.
C12_BlankLineEndsParagraph ==
    [][(pc = "scan" /\ ~bcode /\ BlankLineAt(p)) => BlankLineHandled]_vars

-----------------------------------------------------------------------------
(* C13 *)

\* what the unordered-item handling does in the step at hand
UnorderedItemHandled ==
    /\ Count(out', "li_open") = Count(out, "li_open") + 1
    /\ IF stk_list_p = 0
       THEN Count(out', "ul_open") = Count(out, "ul_open") + 1 /\ stk_list_p' = 1
       ELSE Count(out', "li_end") = Count(out, "li_end") + 1
    /\ out'[Len(out')][1] \in {"li_open", "li_text"}

\* C13: every line outside a fenced code block that begins with '*', '+' or
\* '-' followed by a space or a tab is taken as an unordered list item,
\* whatever the line before it was: list-open if no list is open, otherwise
\* list-item-end, and then list-item-open.
C13_UnorderedItemRecognized ==
    [][(pc = "scan" /\ ~bcode /\ LineStart(p) /\ IsUnorderedMarker(p))
          => UnorderedItemHandled]_vars

-----------------------------------------------------------------------------
(* C14 *)

\* the index of the first character of the line that holds the index i
RECURSIVE LineBegin(_)
LineBegin(i) == IF LineStart(i) THEN i ELSE LineBegin(i - 1)

\* the characters At(i) .. At(j-1) are letters and spaces, the first and the
\* last of them letters
PlainText(i, j) ==
    /\ j > i
    /\ \A k \in i..(j - 1) : At(k) \in Letters \cup {" "}
    /\ At(i) \in Letters /\ At(j - 1) \in Letters

\* the end of line at i is followed by a rule line that ends in a newline
RuleFollows(i) == At(i) = "\n" /\ IsRule(i + 1) /\ strchr(i + 1, "\n") # 0

\* the step at hand writes, after ordinary text only, a major section
\* header whose title is the text t (compared as squeezed text)
HeaderWritten(t) ==
    \E k \in (Len(out) + 1)..(Len(out') - 1) :
        /\ out'[k][1] = "new_sh"
        /\ \A j \in (Len(out) + 1)..(k - 1) : out'[j][1] = "ch"
        /\ out'[Len(out')] = NL
        /\ sqzdup(SubSeq(out', k + 1, Len(out') - 1)) = sqzdup(t)

\* C14: when an end of line is followed by a rule line and the buffer is
\* not empty, the major section header carries as its title only the source
\* line immediately before the rule; the text buffered from earlier lines is
\* flushed as ordinary text before the header, and the rule line itself
\* writes nothing.
C14_TitleIsLineBeforeRule ==
    [][(/\ pc = "scan" /\ ~bcode /\ RuleFollows(p) /\ Len(buf) > 0
        /\ PlainText(LineBegin(p), p))
          => (HeaderWritten(Copy(LineBegin(p), p)) /\ buf' = <<>>)]_vars

-----------------------------------------------------------------------------
(* C15 *)

\* the digits At(i) .. At(j-1) as a numeral
RECURSIVE Numeral(_, _)
Numeral(i, j) == IF i >= j THEN "" ELSE At(i) \o Numeral(i + 1, j)

\* the iteration at hand opens an ordered list in the man package
OpensOrderedListInMan ==
    /\ Scanning("ol")
    /\ At(SkipDigits(p)) = "."
    /\ stk_list_p = 0
    /\ mpack = "mp_man"

\* C15: in the man dialect the first item of a freshly opened ordered list
\* is rendered with the value of its literal marker as its counter, and the
\* counter stored in the frame of the list is that value plus one afterwards.
C15_FirstItemSeedsCounter ==
    [][OpensOrderedListInMan =>
          /\ Len(out') >= 3
          /\ out'[Len(out') - 2][1] = "li_open"
          /\ out'[Len(out') - 1] = <<"counter", Numeral(p, SkipDigits(p))>>
          /\ out'[Len(out')][1] = "li_text"
          /\ stk_list_p' = 1
          /\ stk_list'[0] = "ol"
          /\ ToString(stk_count'[0] - 1) = Numeral(p, SkipDigits(p))]_vars

C15_Witness ==
    /\ mpack = "mp_man"
    /\ stk_list_p = 1
    /\ stk_list[0] = "ol"
    /\ stk_count[0] = 6
    /\ Len(out) >= 3
    /\ out[Len(out) - 1] = <<"counter", "5">>
    /\ Count(out, "counter") = 1

-----------------------------------------------------------------------------
(* C16 *)

\* the iteration at hand starts in code-block mode
InCodeBlock == pc = "scan" /\ bcode /\ At(p) # NUL

\* what the step at hand appends to the output
NewOut == SubSeq(out', Len(out) + 1, Len(out'))

IsCh(e) == e[1] = "ch"

\* the index after the line that starts at i: past its newline, or at the
\* terminator if the line has none
AfterLine(i) ==
    CHOOSE j \in (i + 1)..(Len(source) + 1) :
        /\ At(j - 1) = "\n" \/ j = Len(source) + 1
        /\ \A k \in i..(j - 2) : At(k) # "\n"

\* C16: in code-block mode every line up to the line that begins with three
\* backticks is written to the output unchanged and in order; nothing of it
\* enters the buffer, no inline construct is recognized in it (the style
\* flags and the list stack stay as they are, and no event is emitted), and
\* the closing fence emits code-block-close exactly once and leaves the mode.
C16_CodeBlockVerbatim ==
    [][InCodeBlock =>
          /\ buf = <<>> /\ buf' = <<>>
          /\ bold' = bold /\ italics' = italics
          /\ UNCHANGED stackvars
          /\ IF Triple(p, Backtick)
             THEN Tags(NewOut) = <<"cblock_end">> /\ ~bcode' /\ p' = p + 3
             ELSE /\ bcode'
                  /\ p' = AfterLine(p)
                  /\ SelectSeq(NewOut, IsCh) = [k \in 1..(p' - p) |-> Ch(At(p + k - 1))]
                  /\ \A i \in DOMAIN NewOut :
                        NewOut[i][1] \in {"ch", "cc_on", "cc_off"}]_vars

C16_Witness ==
    /\ Completed
    /\ Count(out, "cblock_end") = 1
    /\ \E i \in DOMAIN out : out[i] = Ch("*")
    /\ Count(out, "bold_open") = 0

-----------------------------------------------------------------------------
(* C17 *)

\* the iteration at hand writes a line of a code block
WritesCodeLine == InCodeBlock /\ ~Triple(p, Backtick)

\* C17: in a code block a line that begins with '.' is written between the
\* control-character switch line immediately before it and the switch-back
\* line immediately after it, the pair bracketing exactly that line; a line
\* that does not begin with '.' is written with no switch lines.
C17_DotLineBracketed ==
    [][WritesCodeLine =>
          IF At(p) = "."
          THEN /\ Len(NewOut) >= 4
               /\ NewOut[1][1] = "cc_on"
               /\ NewOut[2] = Ch(".")
               /\ NewOut[Len(NewOut) - 1] = NL
               /\ NewOut[Len(NewOut)][1] = "cc_off"
               /\ \A i \in 2..(Len(NewOut) - 2) : IsCh(NewOut[i]) /\ NewOut[i] # NL
          ELSE \A i \in DOMAIN NewOut : IsCh(NewOut[i])]_vars

-----------------------------------------------------------------------------
(* C18 *)

\* the characters after which a delimiter opens a style
BoundarySet == {"(", "{", "[", ",", ".", ";", Backtick, "'", "\"", " ", "\t", "\n"}

\* the delimiter at the read position stands at the start of the document
\* or after a character of the boundary set
AtBoundary == p = 1 \/ At(p - 1) \in BoundarySet

\* the scenario document: "**b** x"
BoldScenario == <<"*", "*", "b", "*", "*", " ", "x">>

\* the last n items of o
Last(o, n) == SubSeq(o, Len(o) - n + 1, Len(o))

\* C18: a bold or italic delimiter met while the style is inactive activates
\* it and appends the open token only after a character of the boundary set
\* (or at the document start); otherwise the delimiter is appended literally
\* and the flag is unchanged.  While the style is active the delimiter
\* always deactivates it and appends the close token.  Hence "**b** x"
\* yields bold-open, b, bold-close, " x" in that order.
C18_StyleDelimiters ==
    [][/\ Scanning("strong") =>
             /\ p' = p + 2 /\ italics' = italics /\ out' = out
             /\ IF bold
                THEN ~bold' /\ buf' = Append(buf, <<"bold_close", StyleText("bold_close")>>)
                ELSE IF AtBoundary
                THEN bold' /\ buf' = Append(buf, <<"bold_open", StyleText("bold_open")>>)
                ELSE ~bold' /\ buf' = buf \o <<Ch(At(p)), Ch(At(p))>>
       /\ Scanning("emphasis") =>
             /\ p' = p + 1 /\ bold' = bold /\ out' = out
             /\ IF italics
                THEN ~italics' /\ buf' = Append(buf, <<"ital_close", StyleText("ital_close")>>)
                ELSE IF AtBoundary
                THEN italics' /\ buf' = Append(buf, <<"ital_open", StyleText("ital_open")>>)
                ELSE ~italics' /\ buf' = Append(buf, Ch(At(p)))
       /\ (source = BoldScenario /\ pc' = "returned") =>
             /\ Len(out') >= 6
             /\ Last(out', 6) = <<<<"bold_open", StyleText("bold_open")>>, Ch("b"),
                                  <<"bold_close", StyleText("bold_close")>>,
                                  Ch(" "), Ch("x"), NL>>]_vars

C18_Witness ==
    /\ pc = "scan"
    /\ ~bold
    /\ p >= 4
    /\ At(p - 3) = "a" /\ At(p - 2) = "*" /\ At(p - 1) = "*"
    /\ Len(buf) >= 2
    /\ Last(buf, 2) = <<Ch("*"), Ch("*")>>

-----------------------------------------------------------------------------
(* C19 *)

\* the step at hand writes an item with the tag
Emits(tag) == Count(out', tag) > Count(out, tag)

\* C19: the depth of the list stack stays within 0..32; a frame is pushed
\* only by a list-open event, a frame is popped only when the stack is not
\* empty, and the kind and the counter of the top frame are read or written
\* (the seeding of the counter, its rendering and its increment) only while
\* at least one frame is open.
C19_StackWithinBounds ==
    [][pc = "scan" =>
          /\ stk_list_p \in 0..MAX_LIST_SIZE
          /\ stk_list_p' \in 0..MAX_LIST_SIZE
          /\ stk_list_p' > stk_list_p =>
                /\ stk_list_p' = stk_list_p + 1
                /\ Emits("ol_open") \/ Emits("ul_open")
          /\ stk_list_p' < stk_list_p =>
                /\ stk_list_p > 0
                /\ stk_list_p' = stk_list_p - 1
                /\ Emits("lst_close")
          /\ (Scanning("ol") /\ At(SkipDigits(p)) = ".") => stk_list_p' >= 1
          /\ (stk_count' # stk_count \/ stk_list' # stk_list \/ Emits("counter")) =>
                /\ stk_list_p' >= 1
                /\ \A i \in 0..(MAX_LIST_SIZE - 1) :
                      (stk_count'[i] # stk_count[i] \/ stk_list'[i] # stk_list[i])
                          => i = stk_list_p' - 1]_vars

C19_Witness ==
    /\ pc = "scan"
    /\ stk_list_p = 0
    /\ Count(out, "lst_close") = 1
    /\ Count(out, "li_open") = 2

-----------------------------------------------------------------------------
(* C20 *)

\* the package-activation lines of o all name the same package
OneDialect(o) ==
    \A i, j \in DOMAIN o :
        (o[i][1] = "mso" /\ o[j][1] = "mso") => o[i][2] = o[j][2]

\* C20: the dialect is chosen once per run: all the documents one invocation
\* converts (named files and standard-input reads, wherever the dialect
\* flags stand among the arguments) are written in one and the same
\* dialect, and the dialect does not change while a document is converted.
C20_OneDialectPerRun ==
    [][/\ OneDialect(out')
       /\ pc \in {"entry", "scan"} => mpack' = mpack]_vars

====
